---- MODULE Spec2Model ----
(***************************************************************************)
(* A model of src/data.rs of yang2-rs: the DataTree container, the         *)
(* DataNodeRef node reference and the DataDiff diff tree.                  *)
(*                                                                         *)
(* data.rs is a binding: a DataTree is a schema context and one raw        *)
(* pointer (`raw`) into node memory that the linked library owns.  The     *)
(* model keeps, next to every raw pointer, the sibling chain of the        *)
(* library's memory that the pointer was taken from (`chain`), so that a   *)
(* pointer passed by value (new_path, remove) and a pointer passed by      *)
(* reference (validate, merge, diff_apply) can be told apart: only the     *)
(* second kind lets the library move the container's root handle.          *)
(*                                                                         *)
(* The library primitives (the ffi::lyd functions) and the iterators of    *)
(* crate::iter                                                             *)
(* are not part of src/; they are modelled from the specification text.    *)
(***************************************************************************)
EXTENDS Integers, Sequences, FiniteSets, TLC

VARIABLES A, B, C, D, R, RR, freed, orphans, nextId, status, last, nops

vars == <<A, B, C, D, R, RR, freed, orphans, nextId, status, last, nops>>

(***************************************************************************)
(* Bounds of the model.                                                    *)
(***************************************************************************)
\* Mutating calls (new_path, remove, validate) made on the tree in Spec.
MaxOps == 2

(***************************************************************************)
(* The schema context: module "mod" with a top-level leaf `leaf` and a     *)
(* top-level keyed list `list` (key `k`, child leaf `v`).  It has no       *)
(* mandatory node and no default value.                                    *)
(***************************************************************************)
NULL == 0
NoVal == ""
Vals == {"1", "2"}
Keys == {"a", "b"}

\* Position of a top-level schema node in the module (schema order).
SchemaPos(name) == IF name = "leaf" THEN 1 ELSE 2

(***************************************************************************)
(* Node memory.  A node is [id, name, val, meta, kids]: id is its address, *)
(* kids its child chain, meta its metadata chain (name/value pairs).  A    *)
(* chain is a sequence of nodes in sibling order.                          *)
(***************************************************************************)
MkNode(id, name, val, meta, kids) ==
    [id |-> id, name |-> name, val |-> val, meta |-> meta, kids |-> kids]

RECURSIVE PreOrder(_)
\* The nodes of a chain, each before its descendants, siblings in order.
PreOrder(chain) ==
    IF chain = <<>> THEN <<>>
    ELSE <<Head(chain)>> \o PreOrder(Head(chain).kids) \o PreOrder(Tail(chain))

SeqMap(Op(_), s) == [i \in 1..Len(s) |-> Op(s[i])]
SeqToSet(s) == {s[i] : i \in 1..Len(s)}
IdOf(n) == n.id
Ids(chain) == SeqMap(IdOf, PreOrder(chain))
IdSet(chain) == SeqToSet(Ids(chain))
Size(chain) == Len(PreOrder(chain))
TopIds(chain) == SeqMap(IdOf, chain)

RECURSIVE SelectSeqBy(_, _)
\* The members of s that are in the set keep (order kept).
SelectSeqBy(s, keep) ==
    IF s = <<>> THEN <<>>
    ELSE (IF Head(s) \in keep THEN <<Head(s)>> ELSE <<>>) \o SelectSeqBy(Tail(s), keep)

\* The key of a list entry (the value of its k child).
KeyOf(n) == IF n.kids # <<>> /\ n.kids[1].name = "k" THEN n.kids[1].val ELSE NoVal

\* The value of metadata `name` on node n, NoVal if n has no such entry.
MetaOf(n, name) ==
    IF \E i \in 1..Len(n.meta) : n.meta[i].name = name
    THEN n.meta[CHOOSE i \in 1..Len(n.meta) :
                    /\ n.meta[i].name = name
                    /\ \A j \in 1..(i-1) : n.meta[j].name # name].value
    ELSE NoVal
HasMeta(n, name) == \E i \in 1..Len(n.meta) : n.meta[i].name = name

(***************************************************************************)
(* The tree container.                                                     *)
(***************************************************************************)
\* DataTree::from_raw: the container is its raw pointer; chain is the
\* library memory the pointer was taken from.
from_raw(raw, chain) == [live |-> TRUE, raw |-> raw, chain |-> chain]
NoTree == [live |-> FALSE, raw |-> NULL, chain |-> <<>>]

\* Every node the library has freed, with the contents it had when freed.
FreedIds == UNION {IdSet(<<f>>) : f \in freed}
Dangling(t) == t.raw # NULL /\ t.raw \in FreedIds

\* What a read through a freed pointer finds when the allocator has not
\* reused the cell: the unlinked node (no siblings) and its old subtree.
StaleChain(p) == IF \E f \in freed : f.id = p
                 THEN <<CHOOSE f \in freed : f.id = p>>
                 ELSE <<>>

\* The index of the top-level node with address p in chain, 0 if none.
TopIndex(chain, p) ==
    IF \E i \in 1..Len(chain) : chain[i].id = p
    THEN CHOOSE i \in 1..Len(chain) : chain[i].id = p
    ELSE 0

\* The chain as seen from the raw pointer going forward (LY_LIST_FOR).
FromRaw(t) ==
    IF t.raw = NULL \/ TopIndex(t.chain, t.raw) = 0 THEN <<>>
    ELSE SubSeq(t.chain, TopIndex(t.chain, t.raw), Len(t.chain))

(***************************************************************************)
(* Serialized documents and the parser.                                    *)
(***************************************************************************)
ListEntries == {[k |-> k, v |-> v] : k \in Keys, v \in Vals \cup {NoVal}}
ListSeqs == {<<>>} \cup {<<e>> : e \in ListEntries}
            \cup {p \in ListEntries \X ListEntries : p[1].k # p[2].k}
Docs == {[leaf |-> l, list |-> ls] : l \in Vals \cup {NoVal}, ls \in ListSeqs}

MkLeaf(id, name, val) == MkNode(id, name, val, <<>>, <<>>)
MkEntry(id, e) ==
    MkNode(id, "list", NoVal, <<>>,
           <<MkLeaf(id + 1, "k", e.k)>>
           \o (IF e.v = NoVal THEN <<>> ELSE <<MkLeaf(id + 2, "v", e.v)>>))
EntrySize(e) == IF e.v = NoVal THEN 2 ELSE 3

RECURSIVE ParseEntries(_, _)
ParseEntries(es, base) ==
    IF es = <<>> THEN <<>>
    ELSE <<MkEntry(base + 1, Head(es))>>
         \o ParseEntries(Tail(es), base + EntrySize(Head(es)))

\* lyd_parse_data_mem: the node chain of a document, allocated from base+1.
lyd_parse_data(doc, base) ==
    LET leafPart == IF doc.leaf = NoVal THEN <<>>
                    ELSE <<MkLeaf(base + 1, "leaf", doc.leaf)>>
    IN  leafPart \o ParseEntries(doc.list, base + Len(leafPart))

FirstId(chain) == IF chain = <<>> THEN NULL ELSE chain[1].id

\* DataTree::parse_string
parse_string(doc, base) ==
    LET rnode == lyd_parse_data(doc, base)
    IN  from_raw(FirstId(rnode), rnode)

(***************************************************************************)
(* Node references and the links read through them.                        *)
(***************************************************************************)
\* The memory a dereference of the container's raw pointer reads: the live
\* chain, or the stale cell when the pointer refers to a freed node.
Mem(t) == IF Dangling(t) THEN StaleChain(t.raw) ELSE t.chain

RECURSIVE LinksOf(_, _)
\* The link fields of every node of a chain whose parent is par.
LinksOf(chain, par) ==
    UNION {{[id |-> chain[i].id, parent |-> par,
             next |-> IF i < Len(chain) THEN chain[i + 1].id ELSE NULL,
             child |-> FirstId(chain[i].kids)]}
           \cup LinksOf(chain[i].kids, chain[i].id) : i \in 1..Len(chain)}

Cell(t, p) == CHOOSE c \in LinksOf(Mem(t), NULL) : c.id = p
NodeAt(t, p) ==
    LET all == PreOrder(Mem(t))
    IN  all[CHOOSE i \in 1..Len(all) : all[i].id = p]

\* DataTree::reference: a reference to the first top-level node; it is
\* built from self.raw whatever its value, so it is never None.
reference(t) == t.raw

\* impl NodeIterable for DataNodeRef
parent(t, p) == Cell(t, p).parent
next_sibling(t, p) == Cell(t, p).next
first_child(t, p) == Cell(t, p).child

RECURSIVE Siblings(_, _)
\* iter::Siblings::new(start): start and each following node of its chain.
Siblings(t, start) ==
    IF start = NULL THEN <<>>
    ELSE <<start>> \o Siblings(t, next_sibling(t, start))

RECURSIVE Ancestors(_, _)
\* iter::Ancestors::new(start): start and each parent above it.
Ancestors(t, start) ==
    IF start = NULL THEN <<>>
    ELSE <<start>> \o Ancestors(t, parent(t, start))

RECURSIVE Traverse(_, _)
RECURSIVE FlatMapTraverse(_, _)
\* iter::Traverse::new(start): pre-order walk of start and its subtree.
Traverse(t, start) ==
    <<start>> \o FlatMapTraverse(t, Siblings(t, first_child(t, start)))
FlatMapTraverse(t, starts) ==
    IF starts = <<>> THEN <<>>
    ELSE Traverse(t, Head(starts)) \o FlatMapTraverse(t, Tail(starts))

\* A siblings that starts the producer at the node itself.
siblings_inclusive(t, p) == Siblings(t, p)

\* DataNodeRef::ancestors
ancestors(t, p) == Ancestors(t, parent(t, p))
\* DataNodeRef::siblings
siblings(t, p) == Siblings(t, next_sibling(t, p))
\* DataNodeRef::children
children(t, p) == Siblings(t, first_child(t, p))

\* The outcomes of iterating from a pointer that must not be dereferenced
\* (null, freed): the process faults before or after the first item.
Fault(yielded) == [yield |-> yielded, fault |-> TRUE]
Yield(yielded) == [yield |-> yielded, fault |-> FALSE]

\* DataTree::traverse: Siblings::new(Some(self.reference())) flat-mapped
\* with DataNodeRef::traverse.  On an empty container the reference holds
\* a null pointer and is walked all the same; on a container whose root
\* was freed the walk reads freed memory.
DataTree_traverse(t) ==
    IF t.raw = NULL
    THEN {Fault(<<>>), Fault(<<reference(t)>>)}
    ELSE IF Dangling(t)
    THEN {Fault(<<>>), Yield(FlatMapTraverse(t, Siblings(t, reference(t))))}
    ELSE {Yield(FlatMapTraverse(t, Siblings(t, reference(t))))}

(***************************************************************************)
(* Paths and the path query evaluator.                                     *)
(***************************************************************************)
\* The paths callers pass: "/mod:list[" is malformed, the others are valid.
XPaths == {"/mod:leaf", "/mod:list", "/mod:list[k='a']", "/mod:list[k='b']",
           "/mod:list/v", "/mod:list[k='a']/v", "/mod:list["}

\* The steps of a path: top-level name (or "*"), key predicate, child name.
Step(ok, top, key, child) == [ok |-> ok, top |-> top, key |-> key, child |-> child]
PathSteps(xpath) ==
    CASE xpath = "/mod:leaf"          -> Step(TRUE, "leaf", NoVal, NoVal)
      [] xpath = "/mod:list"          -> Step(TRUE, "list", NoVal, NoVal)
      [] xpath = "/mod:list[k='a']"   -> Step(TRUE, "list", "a", NoVal)
      [] xpath = "/mod:list[k='b']"   -> Step(TRUE, "list", "b", NoVal)
      [] xpath = "/mod:list/v"        -> Step(TRUE, "list", NoVal, "v")
      [] xpath = "/mod:list[k='a']/v" -> Step(TRUE, "list", "a", "v")
      [] xpath = "/mod:list[k='b']/v" -> Step(TRUE, "list", "b", "v")
      [] xpath = "/mod:*"             -> Step(TRUE, "*", NoVal, NoVal)
      [] OTHER                        -> Step(FALSE, NoVal, NoVal, NoVal)

TopMatches(n, st) ==
    /\ st.top \in {"*", n.name}
    /\ st.key = NoVal \/ (n.name = "list" /\ KeyOf(n) = st.key)

RECURSIVE Eval(_, _)
\* The ids of the nodes of chain that the steps select, in document order.
Eval(chain, st) ==
    IF chain = <<>> THEN <<>>
    ELSE LET n == Head(chain)
             here == IF ~TopMatches(n, st) THEN <<>>
                     ELSE IF st.child = NoVal THEN <<n.id>>
                     ELSE SeqMap(IdOf, SelectSeq(n.kids, LAMBDA c : c.name = st.child))
         IN  here \o Eval(Tail(chain), st)

\* lyd_find_xpath: evaluates from the first top-level sibling of ctx_node.
lyd_find_xpath(t, xpath) ==
    IF ~PathSteps(xpath).ok THEN [ok |-> FALSE, set |-> <<>>]
    ELSE [ok |-> TRUE, set |-> Eval(Mem(t), PathSteps(xpath))]

\* Error::new(context): the error the library recorded last.
Error_new == [errcode |-> "LY_EVALID", msg |-> "libyang", path |-> NoVal]
Ok(v) == [ok |-> TRUE, val |-> v]
Err(e) == [ok |-> FALSE, err |-> e]

\* Data::find
find(t, xpath) ==
    LET ret == lyd_find_xpath(t, xpath)
    IN  IF ~ret.ok THEN Err(Error_new) ELSE Ok(ret.set)

\* A find_single that takes the first match without counting the others.
find_single_first(t, xpath) ==
    LET dnodes == find(t, xpath)
    IN  IF ~dnodes.ok THEN dnodes
        ELSE IF Len(dnodes.val) >= 1 THEN Ok(dnodes.val[1])
        ELSE Err([errcode |-> "LY_ENOTFOUND",
                  msg |-> "Data node not found",
                  path |-> xpath])

\* Data::find_single
find_single(t, xpath) ==
    LET dnodes == find(t, xpath)
    IN  IF ~dnodes.ok THEN dnodes
        ELSE IF Len(dnodes.val) >= 2
        THEN Err([errcode |-> "LY_ENOTFOUND",
                  msg |-> "Path refers to more than one data node",
                  path |-> xpath])
        ELSE IF Len(dnodes.val) = 1 THEN Ok(dnodes.val[1])
        ELSE Err([errcode |-> "LY_ENOTFOUND",
                  msg |-> "Data node not found",
                  path |-> xpath])

(***************************************************************************)
(* Library primitives that change node memory.                             *)
(***************************************************************************)
RECURSIVE Unlink(_, _)
\* The chain without the node at address p (at any depth) and its subtree.
Unlink(chain, p) ==
    IF chain = <<>> THEN <<>>
    ELSE IF Head(chain).id = p THEN Tail(chain)
    ELSE <<[Head(chain) EXCEPT !.kids = Unlink(Head(chain).kids, p)]>>
         \o Unlink(Tail(chain), p)

Min(S) == CHOOSE x \in S : \A y \in S : x <= y

\* lyd_insert_node for a top-level node: before the first sibling whose
\* schema node comes later in the module, else at the end of the chain.
lyd_insert_node(chain, node) ==
    LET later == {i \in 1..Len(chain) :
                     SchemaPos(chain[i].name) > SchemaPos(node.name)}
    IN  IF later = {} THEN Append(chain, node)
        ELSE SubSeq(chain, 1, Min(later) - 1) \o <<node>>
             \o SubSeq(chain, Min(later), Len(chain))

\* Whether new_path can create or update along these steps with this value.
Creatable(st, value) ==
    /\ st.ok
    /\ st.top \in {"leaf", "list"}
    /\ st.top = "list" => st.key # NoVal
    /\ (st.top = "leaf" \/ st.child = "v") => value \in Vals

\* The nodes of a path created from nothing, allocated from base+1.
NewNodes(st, value, base) ==
    IF st.top = "leaf" THEN MkLeaf(base + 1, "leaf", value)
    ELSE MkEntry(base + 1, [k |-> st.key,
                            v |-> IF st.child = "v" THEN value ELSE NoVal])

NewPathResult(ok, chain, orphan, first, used) ==
    [ok |-> ok, chain |-> chain, orphan |-> orphan, first |-> first, used |-> used]

\* lyd_new_path(parent, ctx, path, value, LYD_NEW_PATH_UPDATE, &node): the
\* existing part of the path is looked up from the first sibling of parent,
\* the rest is created and linked to it; an existing terminal leaf gets the
\* value.  With a null parent the new nodes are linked to nothing and are
\* handed back only through node.
lyd_new_path(chain, parentNull, xpath, value, base) ==
    LET st == PathSteps(xpath)
        top == [st EXCEPT !.child = NoVal]
        hit == {i \in 1..Len(chain) : TopMatches(chain[i], top)}
    IN  IF ~Creatable(st, value)
        THEN NewPathResult(FALSE, chain, <<>>, NULL, 0)
        ELSE IF parentNull
        THEN LET n == NewNodes(st, value, base)
             IN  NewPathResult(TRUE, chain, <<n>>, n.id, Size(<<n>>))
        ELSE IF hit = {}
        THEN LET n == NewNodes(st, value, base)
             IN  NewPathResult(TRUE, lyd_insert_node(chain, n), <<>>, n.id, Size(<<n>>))
        ELSE LET i == Min(hit)
                 vs == {j \in 1..Len(chain[i].kids) : chain[i].kids[j].name = "v"}
             IN  IF st.top = "leaf"
                 THEN NewPathResult(TRUE, [chain EXCEPT ![i].val = value],
                                    <<>>, NULL, 0)
                 ELSE IF st.child = NoVal
                 THEN NewPathResult(TRUE, chain, <<>>, NULL, 0)
                 ELSE IF vs = {}
                 THEN NewPathResult(TRUE,
                        [chain EXCEPT ![i].kids = @ \o <<MkLeaf(base + 1, "v", value)>>],
                        <<>>, base + 1, 1)
                 ELSE NewPathResult(TRUE,
                        [chain EXCEPT ![i].kids[Min(vs)].val = value],
                        <<>>, NULL, 0)

(***************************************************************************)
(* The container's operations.  Each gives the set of its outcomes: one    *)
(* outcome where the behaviour is defined, several where the call reads    *)
(* or writes memory it must not (the process faults, or it goes on with    *)
(* what the freed cell still holds).                                       *)
(***************************************************************************)
Outcome(res, tree, newFreed, orphan, used, st) ==
    [res |-> res, tree |-> tree, freed |-> newFreed, orphan |-> orphan,
     used |-> used, status |-> st]
Crashed(t) == Outcome(Err(Error_new), t, {}, <<>>, 0, "crashed")
Corrupted(t) == Outcome(Err(Error_new), t, {}, <<>>, 0, "corrupted")

\* DataTree::validate: the schema has no mandatory node, no default and no
\* constraint, so validation of a well-formed chain succeeds and adds nothing.
validate(t) ==
    IF Dangling(t) THEN {Crashed(t), Corrupted(t)}
    ELSE {Outcome(Ok(NULL), t, {}, <<>>, 0, "running")}

\* DataTree::new
DataTree_new ==
    LET dtree == from_raw(NULL, <<>>)
    IN  {o.tree : o \in {v \in validate(dtree) : v.res.ok}}

\* DataTree::new_path: self.raw() is handed to the library by value, and
\* the root handle is left as it was.
new_path(t, xpath, value, base) ==
    IF Dangling(t) THEN {Crashed(t), Corrupted(t)}
    ELSE LET ret == lyd_new_path(t.chain, t.raw = NULL, xpath, value, base)
         IN  IF ~ret.ok THEN {Outcome(Err(Error_new), t, {}, <<>>, 0, "running")}
             ELSE {Outcome(Ok(ret.first), [t EXCEPT !.chain = ret.chain], {},
                           ret.orphan, ret.used, "running")}

\* A remove that frees the first match of find, whatever the match count.
remove_first_match(t, xpath) ==
    LET dnodes == find(t, xpath)
    IN  {IF ~dnodes.ok \/ dnodes.val = <<>> \/ Dangling(t)
         THEN Outcome(Err(Error_new), t, {}, <<>>, 0, "running")
         ELSE Outcome(Ok(NULL), [t EXCEPT !.chain = Unlink(t.chain, dnodes.val[1])],
                      {NodeAt(t, dnodes.val[1])}, <<>>, 0, "running")}

\* DataTree::remove: find_single, then lyd_free_tree on the node found.
\* The root handle is left as it was.
remove(t, xpath) ==
    LET dnode == find_single(t, xpath)
        go == IF ~dnode.ok THEN Outcome(dnode, t, {}, <<>>, 0, "running")
              ELSE IF dnode.val \in FreedIds THEN Corrupted(t)
              ELSE Outcome(Ok(NULL), [t EXCEPT !.chain = Unlink(t.chain, dnode.val)],
                           {NodeAt(t, dnode.val)}, <<>>, 0, "running")
    IN  IF Dangling(t) THEN {Crashed(t), go} ELSE {go}

(***************************************************************************)
(* Spec: one container A, built empty or by the parser, then used through  *)
(* its public operations.  last records the latest call: its arguments,    *)
(* its result and the container as it was before the call.                 *)
(***************************************************************************)
\* The documents Spec parses, and the (path, value) pairs it creates.
SpecDocs == {d \in Docs : /\ d.leaf # "2"
                          /\ \A i \in 1..Len(d.list) :
                                d.list[i].v = (IF d.list[i].k = "a" THEN "1" ELSE NoVal)}
NewPathArgs == {<<"/mod:leaf", "1">>, <<"/mod:leaf", "2">>,
                <<"/mod:list[k='a']/v", "1">>, <<"/mod:list[k='a']/v", "2">>,
                <<"/mod:list[k='b']", NoVal>>, <<"/mod:list/v", "1">>}

\* The calls that end a run: the read-only calls and the container's drop.
\* A run is mutating calls, then one of these.
Reads == {"find_single", "traverse", "siblings", "children", "ancestors",
          "diff_iter", "drop"}
Running == status = "running" /\ last.op \notin Reads

Init ==
    /\ A \in DataTree_new \cup {parse_string(d, 0) : d \in SpecDocs}
    /\ B = NoTree /\ C = NoTree
    /\ D = NoTree /\ R = NoTree /\ RR = NoTree
    /\ freed = {}
    /\ orphans = {}
    /\ nextId = Size(A.chain)
    /\ status = "running"
    /\ last = [op |-> "init"]
    /\ nops = 0

\* A mutating call on A ended with outcome o.
Commit(o, call) ==
    /\ A' = o.tree
    /\ freed' = freed \cup o.freed
    /\ orphans' = orphans \cup (IF o.orphan = <<>> THEN {} ELSE {o.orphan})
    /\ nextId' = nextId + o.used
    /\ status' = o.status
    /\ last' = call
    /\ nops' = nops + 1
    /\ UNCHANGED <<B, C, D, R, RR>>

\* A read-only call on A ended; fault tells whether the process survived.
Query(call, fault) ==
    /\ last' = call
    /\ status' = IF fault THEN "crashed" ELSE status
    /\ UNCHANGED <<A, B, C, D, R, RR, freed, orphans, nextId, nops>>

\* What the path query finds in A now (the ids, in document order).
Matches(xpath) == lyd_find_xpath(A, xpath)

NewPath(xpath, value) ==
    /\ Running /\ nops < MaxOps
    /\ \E o \in new_path(A, xpath, value, nextId) :
          Commit(o, [op |-> "new_path", arg |-> xpath, value |-> value,
                     res |-> o.res, pre |-> A, status |-> o.status,
                     orphan |-> o.orphan])

Remove(xpath) ==
    /\ Running /\ nops < MaxOps
    /\ \E o \in remove(A, xpath) :
          Commit(o, [op |-> "remove", arg |-> xpath, res |-> o.res, pre |-> A,
                     status |-> o.status, matches |-> Matches(xpath),
                     preFreed |-> freed,
                     preWalk |-> DataTree_traverse(A)])

Validate ==
    /\ Running /\ nops < MaxOps
    /\ \E o \in validate(A) :
          Commit(o, [op |-> "validate", res |-> o.res, pre |-> A,
                     status |-> o.status])

FindSingle(xpath) ==
    /\ Running
    /\ \/ Query([op |-> "find_single", arg |-> xpath, fault |-> FALSE,
                 res |-> find_single(A, xpath), matches |-> Matches(xpath)], FALSE)
       \/ /\ Dangling(A)
          /\ Query([op |-> "find_single", arg |-> xpath, fault |-> TRUE], TRUE)

TraverseTree ==
    /\ Running
    /\ \E r \in DataTree_traverse(A) :
          Query([op |-> "traverse", res |-> r], r.fault)

\* The nodes a caller can hold a reference to: those of a sound container.
Refs == IF Dangling(A) THEN {} ELSE IdSet(A.chain)

SiblingsOf(p) ==
    /\ Running
    /\ Query([op |-> "siblings", node |-> p, res |-> siblings(A, p)], FALSE)

ChildrenOf(p) ==
    /\ Running
    /\ Query([op |-> "children", node |-> p, res |-> children(A, p)], FALSE)

AncestorsOf(p) ==
    /\ Running
    /\ Query([op |-> "ancestors", node |-> p, res |-> ancestors(A, p)], FALSE)

\* impl Drop for DataTree: lyd_free_all(self.raw) frees the node raw refers
\* to with all its siblings, before and after it, and nothing when raw is
\* null.  On a root that was freed already it frees freed memory.
drop(t) ==
    IF t.raw = NULL THEN {Outcome(Ok(NULL), NoTree, {}, <<>>, 0, "running")}
    ELSE IF Dangling(t) THEN {Crashed(NoTree), Corrupted(NoTree)}
    ELSE {Outcome(Ok(NULL), NoTree, SeqToSet(t.chain), <<>>, 0, "running")}

Drop ==
    /\ Running /\ A.live
    /\ \E o \in drop(A) :
          /\ A' = o.tree
          /\ freed' = freed \cup o.freed
          /\ status' = o.status
          /\ last' = [op |-> "drop", pre |-> A, preFreed |-> freed,
                      status |-> o.status]
    /\ UNCHANGED <<B, C, D, R, RR, orphans, nextId, nops>>

Next ==
    \/ \E a \in NewPathArgs : NewPath(a[1], a[2])
    \/ \E xpath \in XPaths : Remove(xpath)
    \/ Validate
    \/ \E xpath \in XPaths : FindSingle(xpath)
    \/ TraverseTree
    \/ \E p \in Refs : SiblingsOf(p)
    \/ \E p \in Refs : ChildrenOf(p)
    \/ \E p \in Refs : AncestorsOf(p)
    \/ Drop

Spec == Init /\ [][Next]_vars

(***************************************************************************)
(* Reference notions the claims are stated with, read off the node values  *)
(* and not off the links the producers follow.                             *)
(***************************************************************************)
RECURSIVE ChainWith(_, _)
\* The sibling chain that holds the node at address p.
ChainWith(chain, p) ==
    IF \E i \in 1..Len(chain) : chain[i].id = p THEN chain
    ELSE ChainWith(chain[CHOOSE i \in 1..Len(chain) : p \in IdSet(<<chain[i]>>)].kids, p)

\* The nodes after p in its sibling chain, in document order.
Following(chain, p) ==
    LET c == ChainWith(chain, p)
    IN  TopIds(SubSeq(c, TopIndex(c, p) + 1, Len(c)))

RECURSIVE Above(_, _)
\* The ancestors of p, nearest first.
Above(chain, p) ==
    IF \E i \in 1..Len(chain) : chain[i].id = p THEN <<>>
    ELSE LET i == CHOOSE j \in 1..Len(chain) : p \in IdSet(<<chain[j]>>)
         IN  Above(chain[i].kids, p) \o <<chain[i].id>>

\* The ids freed by the latest call.
JustFreed == UNION {IdSet(<<f>>) : f \in freed \ last.preFreed}

(***************************************************************************)
(* Claims checked under Spec.                                              *)
(***************************************************************************)
NotFound(e, xpath) ==
    /\ e.errcode = "LY_ENOTFOUND" /\ e.msg = "Data node not found"
    /\ e.path = xpath
TooMany(e, xpath) ==
    /\ e.errcode = "LY_ENOTFOUND"
    /\ e.msg = "Path refers to more than one data node"
    /\ e.path = xpath

\* C2 (as amended): when find yields exactly one node find_single returns
\* it; when it yields none find_single fails with code LY_ENOTFOUND and
\* message "Data node not found"; when it yields two or more it fails with
\* the same code LY_ENOTFOUND and message "Path refers to more than one data
\* node"; both errors carry the queried path unchanged.
C2_FindSingleCardinality ==
    (last.op = "find_single" /\ ~last.fault /\ last.matches.ok) =>
        LET n == Len(last.matches.set)
        IN  /\ n = 1 => last.res = Ok(last.matches.set[1])
            /\ n = 0 => ~last.res.ok /\ NotFound(last.res.err, last.arg)
            /\ n >= 2 => ~last.res.ok /\ TooMany(last.res.err, last.arg)

\* C2 witness: find_single has run on a path that two nodes match.
C2_Witness ==
    /\ last.op = "find_single" /\ ~last.fault /\ last.matches.ok
    /\ Len(last.matches.set) >= 2 /\ ~last.res.ok

\* C2 as claimed: the error for two or more matches is of a kind distinct
\* from the NotFoundError given for no match.
C2_DistinctErrorKinds ==
    (last.op = "find_single" /\ ~last.fault /\ last.matches.ok) =>
        LET n == Len(last.matches.set)
        IN  /\ n = 1 => last.res = Ok(last.matches.set[1])
            /\ n = 0 => ~last.res.ok /\ last.res.err.errcode = "LY_ENOTFOUND"
                        /\ last.res.err.path = last.arg
            /\ n >= 2 => ~last.res.ok /\ last.res.err.errcode # "LY_ENOTFOUND"
                         /\ last.res.err.path = last.arg

\* C3: a remove that returns, on a path that matches no node or more than
\* one node, returns an error and leaves the container, its nodes, their
\* links and order, and the freed set as they were.
C3_RemoveErrorKeepsTree ==
    (/\ last.op = "remove" /\ last.status # "crashed"
     /\ last.matches.ok /\ Len(last.matches.set) # 1) =>
        /\ ~last.res.ok
        /\ A = last.pre
        /\ freed = last.preFreed

\* C3 witness: remove has failed on a path that two nodes match.
C3_Witness ==
    /\ last.op = "remove" /\ last.status = "running"
    /\ last.matches.ok /\ Len(last.matches.set) >= 2
    /\ ~last.res.ok /\ A = last.pre /\ Len(A.chain) >= 2

\* C4 as claimed: after a successful remove of N, for every position of N,
\* the tree-level traversal yields the nodes it yielded before the call
\* without N and its descendants, in their previous order.
C4_RemoveThenTraverse ==
    (/\ last.op = "remove" /\ last.res.ok /\ last.status = "running"
     /\ \E w \in last.preWalk : ~w.fault /\ last.preWalk = {w}) =>
        LET w == CHOOSE x \in last.preWalk : TRUE
        IN  DataTree_traverse(A) =
                {Yield(SelectSeqBy(w.yield, SeqToSet(w.yield) \ JustFreed))}

\* C5 as claimed: the traversal of a container with no top-level node ends
\* normally and yields no node reference.
C5_EmptyTraverseYieldsNothing ==
    (last.op = "traverse" /\ A.raw = NULL) => last.res = Yield(<<>>)

\* C6 as claimed: after new_path succeeds on a path to a leaf, the leaf is
\* reachable from the container: find on that path yields exactly one node,
\* it holds the value given, and the traversal yields it.
C6_NewPathReachable ==
    (/\ last.op = "new_path" /\ last.res.ok /\ last.status = "running"
     /\ last.arg \in {"/mod:leaf", "/mod:list[k='a']/v"}) =>
        /\ Len(Matches(last.arg).set) = 1
        /\ NodeAt(A, Matches(last.arg).set[1]).val = last.value
        /\ \A w \in DataTree_traverse(A) :
              ~w.fault /\ Matches(last.arg).set[1] \in SeqToSet(w.yield)

\* C10 (as amended): siblings of N yields the nodes that follow N in its
\* sibling chain, in document order, and not N; children of N yields the
\* children of N from the first on, in document order; ancestors of N
\* yields the parent of N, then each further ancestor up to the top-level
\* node, and not N.
C10_Producers ==
    /\ last.op = "siblings" =>
          last.res = Following(A.chain, last.node) /\ last.node \notin SeqToSet(last.res)
    /\ last.op = "children" =>
          last.res = TopIds(NodeAt(A, last.node).kids)
    /\ last.op = "ancestors" =>
          last.res = Above(A.chain, last.node) /\ last.node \notin SeqToSet(last.res)

\* C10 witness: siblings has run on a node that is followed by a sibling.
C10_Witness ==
    /\ last.op = "siblings" /\ Len(last.res) >= 1
    /\ last.res = Following(A.chain, last.node)

\* C10 as claimed: siblings of N yields N first, then the nodes after it.
C10_SiblingsYieldSelfFirst ==
    last.op = "siblings" =>
        last.res = <<last.node>> \o Following(A.chain, last.node)

\* C12 as claimed: the tree-level traversal ends normally and yields every
\* node of the tree exactly once, in pre-order: top-level nodes in sibling
\* order, each node before its descendants, children in sibling order.
C12_TraverseEveryNodeOnce ==
    last.op = "traverse" => last.res = Yield(Ids(A.chain))

\* C13 as claimed: after any sequence of calls the root handle is absent
\* when the tree is empty, and else refers to the first top-level sibling,
\* which has not been freed; and the container's destruction frees no node
\* that was freed before.
C13_RootHandleSound ==
    /\ A.live => IF A.chain = <<>> THEN A.raw = NULL
                 ELSE A.raw = FirstId(A.chain) /\ A.raw \notin FreedIds
    /\ last.op = "drop" =>
          /\ last.status = "running"
          /\ ~Dangling(last.pre)
          /\ freed = last.preFreed \cup SeqToSet(last.pre.chain)

(***************************************************************************)
(* The diff engine of the library (section 4.6 of the specification).      *)
(* A diff tree is a chain of copies of nodes of the two compared trees;    *)
(* each carries "operation" metadata or inherits it from its parent.       *)
(* A changed leaf carries "orig-value"; a created or moved list entry      *)
(* carries "key" (the key of the entry it follows, empty for the first)    *)
(* and a moved one "orig-key".                                             *)
(***************************************************************************)
Meta(name, value) == [name |-> name, value |-> value]
OpMeta(op) == Meta("operation", op)
WithMeta(n, meta) == [n EXCEPT !.meta = meta]

RECURSIVE DupChain(_, _)
\* A copy of a chain with its metadata, allocated from base+1 in pre-order.
DupChain(chain, base) ==
    IF chain = <<>> THEN <<>>
    ELSE LET n == Head(chain)
         IN  <<[n EXCEPT !.id = base + 1, !.kids = DupChain(n.kids, base + 1)]>>
             \o DupChain(Tail(chain), base + 1 + Size(n.kids))

RECURSIVE Strip(_)
\* A chain without any metadata.
Strip(chain) ==
    IF chain = <<>> THEN <<>>
    ELSE <<[Head(chain) EXCEPT !.meta = <<>>, !.kids = Strip(Head(chain).kids)]>>
         \o Strip(Tail(chain))

\* The index in chain of the single instance named name, 0 if none.
IndexOfName(chain, name) ==
    IF \E i \in 1..Len(chain) : chain[i].name = name
    THEN CHOOSE i \in 1..Len(chain) : chain[i].name = name
    ELSE 0

\* The index in chain of the list entry with key k, 0 if none.
IndexOfKey(chain, k) ==
    IF \E i \in 1..Len(chain) : chain[i].name = "list" /\ KeyOf(chain[i]) = k
    THEN CHOOSE i \in 1..Len(chain) : chain[i].name = "list" /\ KeyOf(chain[i]) = k
    ELSE 0

Entries(chain) == SelectSeq(chain, LAMBDA n : n.name = "list")
KeysOf(chain) == SeqMap(KeyOf, Entries(chain))

\* The difference of the leaf called name between sibling chains as and bs.
LeafDiff(as, bs, name) ==
    LET ia == IndexOfName(as, name)
        ib == IndexOfName(bs, name)
    IN  IF ia = 0 /\ ib = 0 THEN <<>>
        ELSE IF ia = 0 THEN <<WithMeta(bs[ib], <<OpMeta("create")>>)>>
        ELSE IF ib = 0 THEN <<WithMeta(as[ia], <<OpMeta("delete")>>)>>
        ELSE IF as[ia].val # bs[ib].val
        THEN <<WithMeta(bs[ib], <<OpMeta("replace"), Meta("orig-value", as[ia].val)>>)>>
        ELSE <<>>

\* The key before k in the key sequence L, empty if k is first.
KeyBefore(L, k) ==
    LET i == CHOOSE j \in 1..Len(L) : L[j] = k
    IN  IF i = 1 THEN NoVal ELSE L[i - 1]

\* L with k put right after p (first if p is empty).
KeyAfter(L, p, k) ==
    LET rest == SelectSeq(L, LAMBDA x : x # k)
        i == IF p = NoVal THEN 0 ELSE CHOOSE j \in 1..Len(rest) : rest[j] = p
    IN  SubSeq(rest, 1, i) \o <<k>> \o SubSeq(rest, i + 1, Len(rest))

RECURSIVE ListDiff(_, _, _, _)
\* The diff nodes for the list entries bs[i..] of the second tree; as are
\* the entries of the first tree and L the order of the keys so far.
ListDiff(as, bs, i, L) ==
    IF i > Len(bs) THEN <<>>
    ELSE LET b == bs[i]
             k == KeyOf(b)
             p == IF i = 1 THEN NoVal ELSE KeyOf(bs[i - 1])
         IN  IF k \notin SeqToSet(L)
             THEN <<WithMeta(b, <<OpMeta("create"), Meta("key", p)>>)>>
                  \o ListDiff(as, bs, i + 1, KeyAfter(L, p, k))
             ELSE LET a == as[IndexOfKey(as, k)]
                      kd == LeafDiff(a.kids, b.kids, "v")
                      inner == <<b.kids[1]>> \o kd
                  IN  IF KeyBefore(L, k) # p
                      THEN <<[b EXCEPT !.meta = <<OpMeta("replace"), Meta("key", p),
                                                  Meta("orig-key", KeyBefore(L, k))>>,
                                       !.kids = inner]>>
                           \o ListDiff(as, bs, i + 1, KeyAfter(L, p, k))
                      ELSE IF kd # <<>>
                      THEN <<[b EXCEPT !.meta = <<OpMeta("none")>>, !.kids = inner]>>
                           \o ListDiff(as, bs, i + 1, L)
                      ELSE ListDiff(as, bs, i + 1, L)

\* lyd_diff_siblings(first, second, 0, &diff): the diff chain, allocated
\* from base+1; empty when the trees do not differ.
lyd_diff_siblings(first, second, base) ==
    LET as == Entries(first)
        bs == Entries(second)
        gone == SelectSeq(as, LAMBDA a : KeyOf(a) \notin SeqToSet(KeysOf(bs)))
        kept == SelectSeq(KeysOf(as), LAMBDA k : k \in SeqToSet(KeysOf(bs)))
    IN  DupChain(LeafDiff(first, second, "leaf")
                 \o SeqMap(LAMBDA a : WithMeta(a, <<OpMeta("delete")>>), gone)
                 \o ListDiff(as, bs, 1, kept),
                 base)

ApplyResult(ok, chain, used, gone) ==
    [ok |-> ok, chain |-> chain, used |-> used, freed |-> gone]
RemoveAt(chain, i) == SubSeq(chain, 1, i - 1) \o SubSeq(chain, i + 1, Len(chain))
InsertAt(chain, i, n) == SubSeq(chain, 1, i - 1) \o <<n>> \o SubSeq(chain, i, Len(chain))

Fail(chain) == ApplyResult(FALSE, chain, 0, {})
\* The result of doing rest after r.
Combine(r, rest) ==
    ApplyResult(rest.ok, rest.chain, r.used + rest.used, r.freed \cup rest.freed)

\* One leaf operation of a diff on the sibling chain it belongs to; i is
\* the index of the instance of the leaf in the chain, 0 if none.
ApplyLeafAt(chain, d, op, base, top, i) ==
    IF op = "create"
    THEN IF i # 0 THEN Fail(chain)
         ELSE ApplyResult(TRUE,
                          IF top THEN lyd_insert_node(chain, MkLeaf(base + 1, d.name, d.val))
                          ELSE Append(chain, MkLeaf(base + 1, d.name, d.val)),
                          1, {})
    ELSE IF i = 0 THEN Fail(chain)
    ELSE IF op = "delete" THEN ApplyResult(TRUE, RemoveAt(chain, i), 0, {chain[i]})
    ELSE IF op = "replace"
    THEN ApplyResult(TRUE, [chain EXCEPT ![i].val = d.val], 0, {})
    ELSE ApplyResult(TRUE, chain, 0, {})

ApplyLeaf(chain, d, op, base, top) ==
    ApplyLeafAt(chain, d, op, base, top, IndexOfName(chain, d.name))

RECURSIVE ApplyKids(_, _, _)
\* The rest ds of the children's operations after the result r of one.
KidsThen(r, ds, base) ==
    IF ~r.ok THEN r ELSE Combine(r, ApplyKids(r.chain, ds, base + r.used))

\* The operations on the children of a list entry, in diff order; a child
\* without its own operation is left to its parent's.
ApplyKids(kids, ds, base) ==
    IF ds = <<>> THEN ApplyResult(TRUE, kids, 0, {})
    ELSE IF ~HasMeta(Head(ds), "operation") THEN ApplyKids(kids, Tail(ds), base)
    ELSE KidsThen(ApplyLeaf(kids, Head(ds), MetaOf(Head(ds), "operation"), base, FALSE),
                  Tail(ds), base)

\* Where a list entry goes that follows the entry keyed p (0: nowhere).
PlaceOf(chain, p) ==
    IF p = NoVal
    THEN (IF IndexOfName(chain, "list") = 0 THEN Len(chain) + 1
          ELSE IndexOfName(chain, "list"))
    ELSE IF IndexOfKey(chain, p) = 0 THEN 0 ELSE IndexOfKey(chain, p) + 1

\* A created entry d put at index place; i is the index of an entry with
\* the same key, which must not exist.
CreateEntry(chain, d, base, i, place) ==
    IF i # 0 \/ place = 0 THEN Fail(chain)
    ELSE ApplyResult(TRUE, InsertAt(chain, place, DupChain(Strip(<<d>>), base)[1]),
                     Size(<<d>>), {})

\* The entry at index i given the children r.chain and put at index moved
\* of the chain without it.
ChangeEntry(chain, i, moved, r) ==
    IF moved = 0 \/ ~r.ok THEN Fail(chain)
    ELSE ApplyResult(TRUE,
                     InsertAt(RemoveAt(chain, i), moved, [chain[i] EXCEPT !.kids = r.chain]),
                     r.used, r.freed)

\* One list-entry operation of a diff on the top-level chain; i is the
\* index of the entry with the key of d, 0 if none.
ApplyEntryAt(chain, d, op, base, i) ==
    IF op = "create"
    THEN CreateEntry(chain, d, base, i, PlaceOf(chain, MetaOf(d, "key")))
    ELSE IF i = 0 THEN Fail(chain)
    ELSE IF op = "delete" THEN ApplyResult(TRUE, RemoveAt(chain, i), 0, {chain[i]})
    ELSE ChangeEntry(chain, i,
                     IF op = "replace" THEN PlaceOf(RemoveAt(chain, i), MetaOf(d, "key"))
                     ELSE i,
                     ApplyKids(chain[i].kids, d.kids, base))

ApplyEntry(chain, d, op, base) ==
    ApplyEntryAt(chain, d, op, base, IndexOfKey(chain, KeyOf(d)))

RECURSIVE ApplyAll(_, _, _)
\* The rest ds of the diff after the result r of one operation: the patch
\* stops at the first operation that cannot be applied and leaves what it
\* had done.
AllThen(r, ds, base) ==
    IF ~r.ok THEN r ELSE Combine(r, ApplyAll(r.chain, ds, base + r.used))

\* Every operation of the diff chain ds, in order, on the chain.
ApplyAll(chain, ds, base) ==
    IF ds = <<>> THEN ApplyResult(TRUE, chain, 0, {})
    ELSE AllThen(IF Head(ds).name = "list"
                 THEN ApplyEntry(chain, Head(ds), MetaOf(Head(ds), "operation"), base)
                 ELSE ApplyLeaf(chain, Head(ds), MetaOf(Head(ds), "operation"), base, TRUE),
                 Tail(ds), base)

\* lyd_diff_apply_all(&tree, diff)
lyd_diff_apply_all(chain, ds, base) == ApplyAll(chain, ds, base)

SetMeta(meta, name, value) ==
    [i \in 1..Len(meta) |-> IF meta[i].name = name THEN Meta(name, value) ELSE meta[i]]

\* One node of a diff with its own operation reversed.
ReverseNode(n) ==
    LET op == MetaOf(n, "operation")
    IN  IF op = "create" THEN [n EXCEPT !.meta = SetMeta(@, "operation", "delete")]
        ELSE IF op = "delete" THEN [n EXCEPT !.meta = SetMeta(@, "operation", "create")]
        ELSE IF op = "replace" /\ n.name = "list"
        THEN [n EXCEPT !.meta = SetMeta(SetMeta(@, "key", MetaOf(n, "orig-key")),
                                       "orig-key", MetaOf(n, "key"))]
        ELSE IF op = "replace"
        THEN [n EXCEPT !.val = MetaOf(n, "orig-value"),
                       !.meta = SetMeta(@, "orig-value", n.val)]
        ELSE n

RECURSIVE ReverseChain(_)
ReverseChain(chain) ==
    IF chain = <<>> THEN <<>>
    ELSE <<[ReverseNode(Head(chain)) EXCEPT !.kids = ReverseChain(Head(chain).kids)]>>
         \o ReverseChain(Tail(chain))

\* lyd_diff_reverse_all(src_diff, &diff): a new diff chain from base+1.
lyd_diff_reverse_all(chain, base) == DupChain(ReverseChain(chain), base)

\* lyd_dup_siblings(node, NULL, RECURSIVE | WITH_FLAGS, &dup)
lyd_dup_siblings(chain, base) == DupChain(chain, base)

(***************************************************************************)
(* The container's operations on two trees.                                *)
(***************************************************************************)
\* DataTree::duplicate
duplicate(t, base) ==
    LET dup == lyd_dup_siblings(FromRaw(t), base)
    IN  from_raw(FirstId(dup), dup)

\* A diff with the two trees passed to the library in the other order.
diff_swapped(t, dtree, base) ==
    LET rnode == lyd_diff_siblings(FromRaw(dtree), FromRaw(t), base)
    IN  from_raw(FirstId(rnode), rnode)

\* A diff that wraps the second tree's root instead of the diff's.
diff_wraps_second(t, dtree, base) ==
    from_raw(dtree.raw, dtree.chain)

\* DataTree::diff: the DataDiff wraps a DataTree over the diff chain.
diff(t, dtree, base) ==
    LET rnode == lyd_diff_siblings(FromRaw(t), FromRaw(dtree), base)
    IN  from_raw(FirstId(rnode), rnode)

\* DataTree::diff_apply: &mut self.raw is handed to the library, which
\* leaves in it the first sibling of the patched chain.
diff_apply(t, d, base) ==
    LET ret == lyd_diff_apply_all(FromRaw(t), FromRaw(d), base)
    IN  Outcome(IF ret.ok THEN Ok(NULL) ELSE Err(Error_new),
                from_raw(FirstId(ret.chain), ret.chain),
                ret.freed, <<>>, ret.used, "running")

\* A reverse that hands back the first top-level node only.
reverse_first_only(d, base) ==
    LET rnode == lyd_diff_reverse_all(IF FromRaw(d) = <<>> THEN <<>>
                                      ELSE <<Head(FromRaw(d))>>, base)
    IN  from_raw(FirstId(rnode), rnode)

\* DataDiff::reverse
reverse(d, base) ==
    LET rnode == lyd_diff_reverse_all(FromRaw(d), base)
    IN  from_raw(FirstId(rnode), rnode)

\* enum DataDiffOp, as DataDiff::iter maps the metadata value to it.
DataDiffOp(value) ==
    CASE value = "create" -> "Create"
      [] value = "delete" -> "Delete"
      [] value = "replace" -> "Replace"

RECURSIVE FilterMapOps(_, _)
\* The filter_map of DataDiff::iter over the ids a traversal yielded.
FilterMapOps(d, ids) ==
    IF ids = <<>> THEN <<>>
    ELSE LET n == NodeAt(d, Head(ids))
         IN  (IF HasMeta(n, "operation") /\ MetaOf(n, "operation") # "none"
              THEN <<<<DataDiffOp(MetaOf(n, "operation")), n.id>>>>
              ELSE <<>>)
             \o FilterMapOps(d, Tail(ids))

\* DataDiff::iter: self.tree.traverse() filtered; reading the metadata of
\* a null reference faults like the traversal does.
DataDiff_iter(d) ==
    {IF NULL \in SeqToSet(w.yield) THEN Fault(<<>>)
     ELSE [yield |-> FilterMapOps(d, w.yield), fault |-> w.fault] :
        w \in DataTree_traverse(d)}

(***************************************************************************)
(* SpecDiff: two parsed trees A and B; C is made by duplicate from A, D by *)
(* diff from A and B, C is patched with D, D is reversed into R and R      *)
(* into RR, and D is iterated.                                             *)
(***************************************************************************)
DiffDocs == {d \in Docs : \A i \in 1..Len(d.list) :
                              d.list[i].k = "b" => d.list[i].v # "2"}

InitDiff ==
    /\ A \in {parse_string(d, 0) : d \in DiffDocs}
    /\ B \in {parse_string(d, Size(A.chain)) : d \in DiffDocs}
    /\ C = NoTree
    /\ D = NoTree /\ R = NoTree /\ RR = NoTree
    /\ freed = {}
    /\ orphans = {}
    /\ nextId = Size(A.chain) + Size(B.chain)
    /\ status = "running"
    /\ last = [op |-> "init"]
    /\ nops = 0

Duplicate ==
    /\ Running /\ ~C.live
    /\ C' = duplicate(A, nextId)
    /\ nextId' = nextId + Size(C'.chain)
    /\ UNCHANGED <<A, B, D, R, RR, freed, orphans, status, last, nops>>

Diff ==
    /\ Running /\ C.live /\ ~D.live
    /\ D' = diff(A, B, nextId)
    /\ nextId' = nextId + Size(D'.chain)
    /\ UNCHANGED <<A, B, C, R, RR, freed, orphans, status, last, nops>>

DiffApply ==
    /\ Running /\ C.live /\ D.live /\ ~R.live /\ nops = 0
    /\ LET o == diff_apply(C, D, nextId)
       IN  /\ C' = o.tree
           /\ freed' = freed \cup o.freed
           /\ nextId' = nextId + o.used
           /\ last' = [op |-> "diff_apply", res |-> o.res, pre |-> C]
    /\ nops' = nops + 1
    /\ UNCHANGED <<A, B, D, R, RR, orphans, status>>

ReverseDiff ==
    /\ Running /\ D.live /\ ~R.live /\ nops = 0
    /\ R' = reverse(D, nextId)
    /\ nextId' = nextId + Size(R'.chain)
    /\ UNCHANGED <<A, B, C, D, RR, freed, orphans, status, last, nops>>

ReverseBack ==
    /\ Running /\ R.live /\ ~RR.live
    /\ RR' = reverse(R, nextId)
    /\ nextId' = nextId + Size(RR'.chain)
    /\ UNCHANGED <<A, B, C, D, R, freed, orphans, status, last, nops>>

DiffIter ==
    /\ Running /\ D.live /\ ~R.live /\ nops = 0
    /\ \E w \in DataDiff_iter(D) :
          /\ last' = [op |-> "diff_iter", res |-> w]
          /\ status' = IF w.fault THEN "crashed" ELSE status
    /\ UNCHANGED <<A, B, C, D, R, RR, freed, orphans, nextId, nops>>

NextDiff ==
    \/ Duplicate
    \/ Diff
    \/ DiffApply
    \/ ReverseDiff
    \/ ReverseBack
    \/ DiffIter

SpecDiff == InitDiff /\ [][NextDiff]_vars

(***************************************************************************)
(* Claims checked under SpecDiff.                                          *)
(***************************************************************************)
\* A chain up to the addresses of its nodes.
Shape(chain) == DupChain(chain, 0)
DiffOps == {"create", "delete", "replace", "none"}

\* C1: diff_apply of diff(A, B) on duplicate(A) succeeds and leaves in the
\* container a tree equal to B: the same nodes with the same values in the
\* same sibling order.
C1_DiffApplyInverse ==
    last.op = "diff_apply" =>
        /\ last.res.ok
        /\ Shape(FromRaw(C)) = Shape(FromRaw(B))
        /\ C.chain = FromRaw(C)

\* C1 witness: a diff of two or more operations has been applied to the
\* duplicate of A, which differed from B.
C1_Witness ==
    /\ last.op = "diff_apply" /\ last.res.ok
    /\ Len(D.chain) >= 2
    /\ Shape(last.pre.chain) = Shape(A.chain)
    /\ Shape(A.chain) # Shape(B.chain)
    /\ Shape(C.chain) = Shape(B.chain)

SwapOp(op) == IF op = "create" THEN "delete"
              ELSE IF op = "delete" THEN "create" ELSE op

\* Node r of a reversed diff is node d of the diff with its operation
\* reversed: create and delete swapped, the before and after values of a
\* replace exchanged, anything else as it was.
Reversed(d, r) ==
    /\ r.name = d.name
    /\ HasMeta(r, "operation") = HasMeta(d, "operation")
    /\ MetaOf(r, "operation") = SwapOp(MetaOf(d, "operation"))
    /\ IF MetaOf(d, "operation") = "replace" /\ d.name # "list"
       THEN r.val = MetaOf(d, "orig-value") /\ MetaOf(r, "orig-value") = d.val
       ELSE r.val = d.val
    /\ MetaOf(r, "key") = (IF MetaOf(d, "operation") = "replace"
                           THEN MetaOf(d, "orig-key") ELSE MetaOf(d, "key"))
    /\ MetaOf(d, "operation") = "none" => r.meta = d.meta

\* C7: reverse swaps create with delete, exchanges the values of replace
\* and leaves none alone, node for node; reverse of the reverse of a diff
\* is the diff, operation for operation.
C7_ReverseInvolution ==
    /\ R.live =>
          LET ds == PreOrder(D.chain)
              rs == PreOrder(R.chain)
          IN  /\ Len(rs) = Len(ds)
              /\ \A i \in 1..Len(ds) : Reversed(ds[i], rs[i])
    /\ RR.live => Shape(RR.chain) = Shape(D.chain)

\* C7 witness: a diff with a replace and a create or delete has been
\* reversed twice.
C7_Witness ==
    /\ RR.live /\ Shape(RR.chain) = Shape(D.chain)
    /\ Shape(R.chain) # Shape(D.chain)
    /\ \E i \in 1..Len(D.chain) : MetaOf(D.chain[i], "operation") = "replace"
    /\ \E i \in 1..Len(D.chain) : MetaOf(D.chain[i], "operation") \in {"create", "delete"}

RECURSIVE EffectiveOps(_, _)
\* The effective operation of every node of a diff chain, in pre-order:
\* its own, or else the one inherited (NoVal if there is none to inherit).
EffectiveOps(chain, inherited) ==
    IF chain = <<>> THEN <<>>
    ELSE LET n == Head(chain)
             op == IF HasMeta(n, "operation") THEN MetaOf(n, "operation")
                   ELSE inherited
         IN  <<op>> \o EffectiveOps(n.kids, op) \o EffectiveOps(Tail(chain), inherited)

ExplicitTop(t) ==
    /\ \A i \in 1..Len(t.chain) :
          HasMeta(t.chain[i], "operation") /\ MetaOf(t.chain[i], "operation") \in DiffOps
    /\ SeqToSet(EffectiveOps(t.chain, NoVal)) \subseteq DiffOps

\* C8: in a diff tree made by diff or by reverse every top-level node has
\* its own operation, one of create, delete, replace, none, and every node
\* has an effective operation: its own or its nearest ancestor's.
C8_OperationInheritance ==
    /\ D.live => ExplicitTop(D)
    /\ R.live => ExplicitTop(R)
    /\ RR.live => ExplicitTop(RR)

\* C8 witness: a diff and its reverse hold a node without an operation of
\* its own below a top-level node that has one.
C8_Witness ==
    /\ D.live /\ R.live
    /\ \E i \in 1..Len(D.chain) :
          /\ HasMeta(D.chain[i], "operation")
          /\ \E j \in 1..Len(D.chain[i].kids) : ~HasMeta(D.chain[i].kids[j], "operation")

RECURSIVE OwnOps(_)
\* The (operation, node) pairs of the nodes of a diff chain that carry
\* create, delete or replace themselves, in pre-order.
OwnOps(chain) ==
    IF chain = <<>> THEN <<>>
    ELSE LET n == Head(chain)
         IN  (IF MetaOf(n, "operation") \in {"create", "delete", "replace"}
              THEN <<<<DataDiffOp(MetaOf(n, "operation")), n.id>>>> ELSE <<>>)
             \o OwnOps(n.kids) \o OwnOps(Tail(chain))

\* C9 as claimed: the diff iterator ends normally and yields, in pre-order,
\* one (operation, node) pair for each node whose own operation is create,
\* delete or replace, and nothing for any other node.
C9_IterYieldsOwnOps ==
    last.op = "diff_iter" => last.res = Yield(OwnOps(D.chain))

(***************************************************************************)
(* SpecDup: the container A of Spec, mutated, is duplicated into C; then   *)
(* one more mutating call is made on the original or on the copy.          *)
(***************************************************************************)
\* The calls made after the duplicate; each ends the run.
AfterDup == {"orig_new_path", "orig_remove", "copy_new_path", "copy_remove"}
DupRunning == status = "running" /\ last.op \notin AfterDup

\* The original before the duplicate: the mutating calls of Spec.
OrigNewPath(xpath, value) == ~C.live /\ NewPath(xpath, value)
OrigRemove(xpath) == ~C.live /\ Remove(xpath)

\* DataTree::duplicate on A.  The library copies from the node self.raw
\* refers to; through a freed root it faults or copies what the cell holds.
DuplicateOrig ==
    /\ DupRunning /\ ~C.live
    /\ \/ /\ C' = duplicate([A EXCEPT !.chain = Mem(A)], nextId)
          /\ nextId' = nextId + Size(C'.chain)
          /\ last' = [op |-> "duplicate", orig |-> A, status |-> "running"]
          /\ UNCHANGED status
       \/ /\ Dangling(A)
          /\ status' = "crashed"
          /\ last' = [op |-> "duplicate", orig |-> A, status |-> "crashed"]
          /\ UNCHANGED <<C, nextId>>
    /\ UNCHANGED <<A, B, D, R, RR, freed, orphans, nops>>

\* A mutating call made after the duplicate ended with outcome o; onCopy
\* tells which of the two containers it was made on.
CommitAfterDup(o, onCopy, call) ==
    /\ A' = IF onCopy THEN A ELSE o.tree
    /\ C' = IF onCopy THEN o.tree ELSE C
    /\ freed' = freed \cup o.freed
    /\ orphans' = orphans \cup (IF o.orphan = <<>> THEN {} ELSE {o.orphan})
    /\ nextId' = nextId + o.used
    /\ status' = o.status
    /\ last' = [op |-> call, res |-> o.res, orig |-> A, copy |-> C,
                status |-> o.status]
    /\ UNCHANGED <<B, D, R, RR, nops>>

NewPathAfterDup(onCopy, xpath, value) ==
    /\ DupRunning /\ C.live
    /\ \E o \in new_path(IF onCopy THEN C ELSE A, xpath, value, nextId) :
          CommitAfterDup(o, onCopy,
                         IF onCopy THEN "copy_new_path" ELSE "orig_new_path")

RemoveAfterDup(onCopy, xpath) ==
    /\ DupRunning /\ C.live
    /\ \E o \in remove(IF onCopy THEN C ELSE A, xpath) :
          CommitAfterDup(o, onCopy,
                         IF onCopy THEN "copy_remove" ELSE "orig_remove")

NextDup ==
    \/ \E a \in NewPathArgs : OrigNewPath(a[1], a[2])
    \/ \E xpath \in XPaths : OrigRemove(xpath)
    \/ DuplicateOrig
    \/ \E onCopy \in BOOLEAN : \E a \in NewPathArgs :
          NewPathAfterDup(onCopy, a[1], a[2])
    \/ \E onCopy \in BOOLEAN : \E xpath \in XPaths : RemoveAfterDup(onCopy, xpath)

SpecDup == Init /\ [][NextDup]_vars

(***************************************************************************)
(* Claims checked under SpecDup.                                           *)
(***************************************************************************)
\* C11 as claimed: duplicate returns a tree equal to the original in
\* structure and values that shares no node with it; a mutation of the
\* copy leaves the original as it was, and a mutation of the original
\* leaves the copy as it was.
C11_DuplicateIndependent ==
    /\ last.op = "duplicate" =>
          /\ last.status = "running"
          /\ Shape(C.chain) = Shape(A.chain)
          /\ C.raw = FirstId(C.chain)
          /\ IdSet(C.chain) \cap IdSet(A.chain) = {}
    /\ last.op \in {"copy_new_path", "copy_remove"} =>
          last.status = "running" /\ A = last.orig
    /\ last.op \in {"orig_new_path", "orig_remove"} =>
          last.status = "running" /\ C = last.copy

====
